---- MODULE Spec2Model ----
(***************************************************************************)
(* Model of ModelScriptsForCLI/simulation_approach.py: the profile table   *)
(* built at import time, simulate_match, simulate_head_to_head and         *)
(* simulate_season.                                                        *)
(*                                                                         *)
(* Strengths are fixed-point numbers in hundredths (100 = 1.0), so the     *)
(* 0.2 threshold is 20 and the 0.01 epsilon is 1.  Probabilities and       *)
(* average positions are exact rationals [n |-> .., d |-> ..] in lowest    *)
(* terms.  Team names are the integers 1..m in the alphabetical order that *)
(* groupby("Team") produces; 0 is a name that occurs in the matches file   *)
(* but has no row in the standings file.                                   *)
(***************************************************************************)
EXTENDS Integers, Sequences, FiniteSets, TLC

VARIABLES data, team_stats_dict, pc, error, call, result, h2h, randomDraws,
          historical_teams, trial, home_idx, standings, final_rankings,
          matches, tallies, final_rankings_df

vars == <<data, team_stats_dict, pc, error, call, result, h2h, randomDraws,
          historical_teams, trial, home_idx, standings, final_rankings,
          matches, tallies, final_rankings_df>>

seasonVars == <<historical_teams, trial, home_idx, standings, final_rankings,
                matches, tallies, final_rankings_df>>

callVars == <<call, result, h2h>>

----------------------------------------------------------------------------
(* Bounds of the model *)

\* profiles of the first Period teams are chosen freely; larger leagues
\* repeat them cyclically
Period == 3

\* number of teams a league may have beyond the ten that are displayed
ExtraTeams == 1

\* the code runs 1000 trials; the model runs this many
num_simulations == 2

----------------------------------------------------------------------------
(* Program constants *)

Threshold == 20

Epsilon == 1

TopK == 10

MaxTeams == TopK + ExtraTeams

Outcomes == {"H", "D", "A"}

RequiredColumns == {"Season", "Team", "Pts", "GF", "GA", "GD", "W", "D", "L", "Pld"}

\* weighted GF/Pld and GA/Pld values a team can have, in hundredths
ProfileSamples ==
    { [Attack_Strength |-> 100, Defense_Strength |-> 50],
      [Attack_Strength |-> 50,  Defense_Strength |-> 50],
      [Attack_Strength |-> 70,  Defense_Strength |-> 50],
      [Attack_Strength |-> 50,  Defense_Strength |-> 60] }

----------------------------------------------------------------------------
(* Exact rational arithmetic *)

Abs(x) == IF x < 0 THEN -x ELSE x

Min(a, b) == IF a < b THEN a ELSE b

RECURSIVE GCD(_, _)
GCD(a, b) == IF b = 0 THEN a ELSE GCD(b, a % b)

Rat(num, den) ==
    LET g == GCD(Abs(num), den)
    IN  [n |-> num \div g, d |-> den \div g]

RAdd(x, y) == Rat(x.n * y.d + y.n * x.d, x.d * y.d)

RSub(x, y) == Rat(x.n * y.d - y.n * x.d, x.d * y.d)

RDiv(x, y) == Rat(x.n * y.d, x.d * y.n)

RLess(x, y) == x.n * y.d < y.n * x.d

RLeq(x, y) == x.n * y.d <= y.n * x.d

RMax(x, y) == IF RLess(x, y) THEN y ELSE x

One == Rat(1, 1)

Zero == Rat(0, 1)

----------------------------------------------------------------------------
(* The data set and the profile table *)

\* one standings file: the aggregated table, the teams of the latest season
\* (all teams, or all but the first one) and the columns the file
\* has
Datasets(sizes) ==
    UNION { { [perf |-> [t \in 1..m |-> base[((t - 1) % Period) + 1]],
               valid_teams |-> (1..m) \ rel,
               columns |-> RequiredColumns \ miss] :
                 base \in [1..Period -> ProfileSamples],
                 rel \in {r \in {{}, {1}} : r # 1..m},
                 miss \in {{}, {"Pld"}, {"GF"}} } : m \in sizes }

TypeOK == pc \in {"load", "ready", "crashed", "season", "trial", "fixtures", "done"}

Start ==
    /\ team_stats_dict = <<>>
    /\ pc = "load"
    /\ error = "none"
    /\ call = [fn |-> "none", a |-> 0, b |-> 0]
    /\ result = "none"
    /\ h2h = [status |-> "none", raw |-> <<>>, probs |-> <<>>]
    /\ randomDraws = 0
    /\ historical_teams = <<>>
    /\ trial = 0
    /\ home_idx = 0
    /\ standings = <<>>
    /\ final_rankings = <<>>
    /\ matches = <<>>
    /\ tallies = <<>>
    /\ final_rankings_df = <<>>

\* small leagues, every profile chosen freely
Init == data \in Datasets(1..Period) /\ Start

\* leagues of up to MaxTeams teams
InitSeason == data \in Datasets(1..MaxTeams) /\ Start

\* lines 21-43: aggregate, derive the strengths, build the lookup table; a
\* missing column raises KeyError inside the aggregation and the script stops
Load ==
    /\ pc = "load"
    /\ IF RequiredColumns \subseteq data.columns
       THEN /\ team_stats_dict' = data.perf
            /\ pc' = "ready"
            /\ error' = "none"
       ELSE /\ team_stats_dict' = team_stats_dict
            /\ pc' = "crashed"
            /\ error' = "KeyError"
    /\ UNCHANGED <<data, callVars, randomDraws, seasonVars>>

Known(team) == team \in DOMAIN team_stats_dict

Names == 0..Len(data.perf)

----------------------------------------------------------------------------
(* simulate_match *)

home_advantage(home_team, away_team) ==
    LET home_attack  == team_stats_dict[home_team].Attack_Strength
        away_attack  == team_stats_dict[away_team].Attack_Strength
        home_defense == team_stats_dict[home_team].Defense_Strength
        away_defense == team_stats_dict[away_team].Defense_Strength
    IN  (home_attack + away_defense) - (away_attack + home_defense)

\* True when simulate_match takes the np.random.choice branch
UsesRandom(home_team, away_team) == ~Known(home_team) \/ ~Known(away_team)

\* simulate_match with the thresholds included in the win ranges
simulate_match_inclusive(home_team, away_team) ==
    IF UsesRandom(home_team, away_team)
    THEN Outcomes
    ELSE IF home_advantage(home_team, away_team) >= Threshold THEN {"H"}
         ELSE IF home_advantage(home_team, away_team) <= -Threshold THEN {"A"}
         ELSE {"D"}

\* simulate_match without the away-win branch
simulate_match_no_away(home_team, away_team) ==
    IF UsesRandom(home_team, away_team)
    THEN Outcomes
    ELSE IF home_advantage(home_team, away_team) > Threshold THEN {"H"}
         ELSE {"D"}

\* the set of values simulate_match can return
simulate_match(home_team, away_team) ==
    IF UsesRandom(home_team, away_team)
    THEN Outcomes
    ELSE IF home_advantage(home_team, away_team) > Threshold THEN {"H"}
         ELSE IF home_advantage(home_team, away_team) < -Threshold THEN {"A"}
         ELSE {"D"}

\* one call of simulate_match (show_matches calls it for each opponent)
SimulateMatch ==
    /\ pc = "ready"
    /\ \E home_team \in Names, away_team \in Names :
         /\ call' = [fn |-> "simulate_match", a |-> home_team, b |-> away_team]
         /\ result' \in simulate_match(home_team, away_team)
         /\ randomDraws' = randomDraws
                + (IF UsesRandom(home_team, away_team) THEN 1 ELSE 0)
    /\ pc' = "done"
    /\ UNCHANGED <<data, team_stats_dict, error, h2h, seasonVars>>

----------------------------------------------------------------------------
(* simulate_head_to_head *)

\* the probabilities without the 0.2 floor on the draw
HeadToHeadProbs_no_floor(team1, team2) ==
    LET team1_strength == team_stats_dict[team1].Attack_Strength
                            - team_stats_dict[team2].Defense_Strength
        team2_strength == team_stats_dict[team2].Attack_Strength
                            - team_stats_dict[team1].Defense_Strength
        sum            == Abs(team1_strength) + Abs(team2_strength)
        total_strength == IF sum = 0 THEN Epsilon ELSE sum
        team1_prob     == Rat(Abs(team1_strength), total_strength)
        team2_prob     == Rat(Abs(team2_strength), total_strength)
        draw_prob      == RSub(One, RAdd(team1_prob, team2_prob))
        total_prob     == RAdd(RAdd(team1_prob, team2_prob), draw_prob)
    IN  [raw   |-> <<team1_prob, draw_prob, team2_prob>>,
         probs |-> <<RDiv(team1_prob, total_prob),
                     RDiv(draw_prob, total_prob),
                     RDiv(team2_prob, total_prob)>>]

\* lines 168-188: the three probabilities before and after renormalisation
HeadToHeadProbs(team1, team2) ==
    LET team1_strength == team_stats_dict[team1].Attack_Strength
                            - team_stats_dict[team2].Defense_Strength
        team2_strength == team_stats_dict[team2].Attack_Strength
                            - team_stats_dict[team1].Defense_Strength
        sum            == Abs(team1_strength) + Abs(team2_strength)
        total_strength == IF sum = 0 THEN Epsilon ELSE sum
        team1_prob     == Rat(Abs(team1_strength), total_strength)
        team2_prob     == Rat(Abs(team2_strength), total_strength)
        draw_prob      == RMax(RSub(One, RAdd(team1_prob, team2_prob)), Rat(1, 5))
        total_prob     == RAdd(RAdd(team1_prob, team2_prob), draw_prob)
    IN  [raw   |-> <<team1_prob, draw_prob, team2_prob>>,
         probs |-> <<RDiv(team1_prob, total_prob),
                     RDiv(draw_prob, total_prob),
                     RDiv(team2_prob, total_prob)>>]

\* line 191: np.random.choice(["H", "D", "A"], p=[team1_prob, draw_prob, team2_prob])
Choice(p) ==
    {o \in Outcomes :
        \/ o = "H" /\ p[1].n > 0
        \/ o = "D" /\ p[2].n > 0
        \/ o = "A" /\ p[3].n > 0}

\* simulate_head_to_head falling back to a uniform guess for an unknown team
simulate_head_to_head_fallback ==
    /\ pc = "ready"
    /\ \E team1 \in Names, team2 \in Names :
         /\ call' = [fn |-> "simulate_head_to_head", a |-> team1, b |-> team2]
         /\ IF ~Known(team1) \/ ~Known(team2)
            THEN /\ h2h' = [status |-> "ok", raw |-> <<>>, probs |-> <<>>]
                 /\ result' \in Outcomes
                 /\ randomDraws' = randomDraws + 1
            ELSE LET p == HeadToHeadProbs(team1, team2)
                 IN  /\ h2h' = [status |-> "ok", raw |-> p.raw, probs |-> p.probs]
                     /\ result' \in Choice(p.probs)
                     /\ randomDraws' = randomDraws + 1
    /\ pc' = "done"
    /\ UNCHANGED <<data, team_stats_dict, error, seasonVars>>

simulate_head_to_head ==
    /\ pc = "ready"
    /\ \E team1 \in Names, team2 \in Names :
         /\ call' = [fn |-> "simulate_head_to_head", a |-> team1, b |-> team2]
         /\ IF ~Known(team1) \/ ~Known(team2)
            THEN /\ h2h' = [status |-> "unknown_team", raw |-> <<>>, probs |-> <<>>]
                 /\ result' = result
                 /\ randomDraws' = randomDraws
            ELSE LET p == HeadToHeadProbs(team1, team2)
                 IN  /\ h2h' = [status |-> "ok", raw |-> p.raw, probs |-> p.probs]
                     /\ result' \in Choice(p.probs)
                     /\ randomDraws' = randomDraws + 1
    /\ pc' = "done"
    /\ UNCHANGED <<data, team_stats_dict, error, seasonVars>>

----------------------------------------------------------------------------
(* simulate_season *)

\* team_performance["Team"]: the teams of the standings file in sorted order
TeamColumn == [i \in 1..Len(data.perf) |-> i]

InValidTeams(team) == team \in data.valid_teams

\* the team list taken from the names of the matches file
HistoricalTeams_from_matches == [i \in 1..(Len(data.perf) + 1) |-> i - 1]

\* lines 119-121: the teams of the aggregated table that play the latest season
HistoricalTeams == SelectSeq(TeamColumn, InValidTeams)

NumTeams == Len(historical_teams)

TeamSet == {historical_teams[i] : i \in 1..NumTeams}

\* lines 119-124
SeasonStart ==
    /\ pc = "ready"
    /\ call' = [fn |-> "simulate_season", a |-> 0, b |-> 0]
    /\ historical_teams' = HistoricalTeams
    /\ final_rankings' = [team \in {HistoricalTeams[i] : i \in 1..Len(HistoricalTeams)} |-> <<>>]
    /\ trial' = 0
    /\ pc' = "trial"
    /\ UNCHANGED <<data, team_stats_dict, error, result, h2h, randomDraws,
                   home_idx, standings, matches, tallies, final_rankings_df>>

\* the tally created once, before the loop over the trials
FreshStandings_shared == IF standings = <<>> THEN [team \in TeamSet |-> 0] ELSE standings

\* line 127: the tally a trial starts from
FreshStandings == [team \in TeamSet |-> 0]

\* lines 126-127: the next trial begins
TrialStart ==
    /\ pc = "trial"
    /\ trial < num_simulations
    /\ standings' = FreshStandings
    /\ matches' = <<>>
    /\ home_idx' = 1
    /\ pc' = "fixtures"
    /\ UNCHANGED <<data, team_stats_dict, error, callVars, randomDraws,
                   historical_teams, trial, final_rankings, tallies,
                   final_rankings_df>>

\* every unordered pair played once
Plays_once(home_team, away_team) == home_team < away_team

\* line 132: the pairs of teams that play
Plays(home_team, away_team) == home_team # away_team

\* lines 134-140: the points one result awards
Award(st, home_team, away_team, res) ==
    IF res = "H" THEN [st EXCEPT ![home_team] = @ + 3]
    ELSE IF res = "D" THEN [[st EXCEPT ![home_team] = @ + 1] EXCEPT ![away_team] = @ + 1]
    ELSE [st EXCEPT ![away_team] = @ + 3]

\* lines 131-140 for one home team: every way the inner loop over the first k
\* away teams can go, as [st: the tally, played: the matches, draws: the
\* number of random draws] records
RECURSIVE InnerLoop(_, _, _, _)
InnerLoop(st, played, home_team, k) ==
    IF k = 0
    THEN {[st |-> st, played |-> played, draws |-> 0]}
    ELSE LET away_team == historical_teams[k]
         IN  UNION { IF Plays(home_team, away_team)
                     THEN { [st     |-> Award(before.st, home_team, away_team, res),
                             played |-> Append(before.played, <<home_team, away_team, res>>),
                             draws  |-> before.draws
                                + (IF UsesRandom(home_team, away_team) THEN 1 ELSE 0)] :
                                res \in simulate_match(home_team, away_team) }
                     ELSE {before} :
                     before \in InnerLoop(st, played, home_team, k - 1) }

\* lines 130-140: one iteration of the outer loop
PlayHomeFixtures ==
    /\ pc = "fixtures"
    /\ home_idx <= NumTeams
    /\ \E after \in InnerLoop(standings, matches, historical_teams[home_idx], NumTeams) :
         /\ standings' = after.st
         /\ matches' = after.played
         /\ randomDraws' = randomDraws + after.draws
    /\ home_idx' = home_idx + 1
    /\ UNCHANGED <<data, team_stats_dict, pc, error, callVars, historical_teams,
                   trial, final_rankings, tallies, final_rankings_df>>

\* a descending sort that also moves a team in front of its equals
Before_or_equal(st, x, y) == st[x] >= st[y]

\* line 143, key=lambda x: x[1], reverse=True: x goes before y
Before(st, x, y) == st[x] > st[y]

\* one insertion of the stable sort: team goes in front of the first team it
\* must precede
RECURSIVE Insert(_, _, _)
Insert(sorted, team, st) ==
    IF sorted = <<>> THEN <<team>>
    ELSE IF Before(st, team, Head(sorted)) THEN <<team>> \o sorted
    ELSE <<Head(sorted)>> \o Insert(Tail(sorted), team, st)

\* line 143: sorted(standings.items(), ...) over the first k teams
RECURSIVE SortedTeams(_, _)
SortedTeams(st, k) ==
    IF k = 0 THEN <<>>
    ELSE Insert(SortedTeams(st, k - 1), historical_teams[k], st)

\* line 144: the index enumerate gives a team
Rank(sorted, team) == (CHOOSE i \in 1..Len(sorted) : sorted[i] = team) - 1

\* the 0-based index recorded as the position
Position_zero_based(sorted, team) == Rank(sorted, team)

\* line 145: the position recorded for a team
Position(sorted, team) == Rank(sorted, team) + 1

\* lines 143-145: the trial's final positions are recorded
RankTrial ==
    /\ pc = "fixtures"
    /\ home_idx > NumTeams
    /\ LET sorted_teams == SortedTeams(standings, NumTeams)
       IN  final_rankings' = [team \in DOMAIN final_rankings |->
                                Append(final_rankings[team], Position(sorted_teams, team))]
    /\ tallies' = Append(tallies, standings)
    /\ trial' = trial + 1
    /\ pc' = "trial"
    /\ UNCHANGED <<data, team_stats_dict, error, callVars, randomDraws,
                   historical_teams, home_idx, standings, matches,
                   final_rankings_df>>

RECURSIVE SumSeq(_)
SumSeq(s) == IF s = <<>> THEN 0 ELSE Head(s) + SumSeq(Tail(s))

\* line 148: np.mean(ranks)
Mean(ranks) == Rat(SumSeq(ranks), Len(ranks))

AvgPosition == [team \in DOMAIN final_rankings |-> Mean(final_rankings[team])]

\* line 150: the number of rows head(10) keeps
HeadRows(n) == Min(n, TopK)

\* line 150: sort_values(by="Avg Position").head(10); the sort is not stable,
\* so any of the teams tied at the cut may be kept
TopSets(avg) ==
    {S \in SUBSET DOMAIN avg :
        /\ Cardinality(S) = HeadRows(Cardinality(DOMAIN avg))
        /\ \A s \in S, t \in (DOMAIN avg) \ S : RLeq(avg[s], avg[t])}

\* lines 148-150
Report ==
    /\ pc = "trial"
    /\ trial >= num_simulations
    /\ \E S \in TopSets(AvgPosition) :
         final_rankings_df' = [team \in S |-> AvgPosition[team]]
    /\ pc' = "done"
    /\ UNCHANGED <<data, team_stats_dict, error, callVars, randomDraws,
                   historical_teams, trial, home_idx, standings,
                   final_rankings, matches, tallies>>

----------------------------------------------------------------------------

Next ==
    \/ Load
    \/ SimulateMatch
    \/ simulate_head_to_head

Spec == Init /\ [][Next]_vars

NextSeason ==
    \/ Load
    \/ SeasonStart
    \/ TrialStart
    \/ PlayHomeFixtures
    \/ RankTrial
    \/ Report

SpecSeason == InitSeason /\ [][NextSeason]_vars

----------------------------------------------------------------------------
(* Properties *)

BothKnown == Known(call.a) /\ Known(call.b)

\* the edge of the specification, from the aggregated table
Edge(home, away) ==
    (data.perf[home].Attack_Strength + data.perf[away].Defense_Strength)
      - (data.perf[away].Attack_Strength + data.perf[home].Defense_Strength)

\* C1: when both teams have a profile, simulate_match returns H when
\* edge > 0.2, A when edge < -0.2 and D otherwise (edge = 0.2 and edge = -0.2
\* included), and takes no random draw
C1_ThresholdClassifier ==
    (call.fn = "simulate_match" /\ BothKnown) =>
        /\ randomDraws = 0
        /\ result = "H" <=> Edge(call.a, call.b) > 20
        /\ result = "A" <=> Edge(call.a, call.b) < -20
        /\ result = "D" <=> (Edge(call.a, call.b) >= -20 /\ Edge(call.a, call.b) <= 20)

C1_Witness ==
    /\ call.fn = "simulate_match"
    /\ BothKnown
    /\ Edge(call.a, call.b) = 20
    /\ result = "D"

\* C2: when both teams have a profile, the three probabilities of
\* simulate_head_to_head sum to 1 after renormalisation and the draw
\* probability before renormalisation is at least 0.2, also when the 0.01
\* epsilon replaces the denominator
C2_ProbabilitiesSumToOne ==
    (call.fn = "simulate_head_to_head" /\ BothKnown) =>
        /\ h2h.status = "ok"
        /\ Len(h2h.probs) = 3
        /\ RAdd(RAdd(h2h.probs[1], h2h.probs[2]), h2h.probs[3]) = [n |-> 1, d |-> 1]
        /\ \A i \in 1..3 : h2h.probs[i].n >= 0
        /\ h2h.raw[2].n * 5 >= h2h.raw[2].d

C2_Witness ==
    /\ call.fn = "simulate_head_to_head"
    /\ BothKnown
    /\ data.perf[call.a].Attack_Strength = data.perf[call.b].Defense_Strength
    /\ data.perf[call.b].Attack_Strength = data.perf[call.a].Defense_Strength
    /\ h2h.probs[2] = [n |-> 1, d |-> 1]

\* C6: simulate_head_to_head with a team that has no profile reports the
\* unknown team, computes no probabilities, draws no random outcome and
\* produces no result
C6_UnknownTeamReported ==
    (call.fn = "simulate_head_to_head" /\ ~BothKnown) =>
        /\ h2h.status = "unknown_team"
        /\ h2h.raw = <<>>
        /\ h2h.probs = <<>>
        /\ result = "none"
        /\ randomDraws = 0

C6_Witness ==
    /\ call.fn = "simulate_head_to_head"
    /\ Known(call.a)
    /\ ~Known(call.b)
    /\ h2h.status = "unknown_team"

\* C7: when the records lack a required column, building the profiles ends
\* in a DataError with an empty profile table that later lookups can use; it
\* ends in no other failure
C7_DataErrorOnMissingColumn ==
    (pc # "load" /\ ~(RequiredColumns \subseteq data.columns)) =>
        /\ error = "DataError"
        /\ pc # "crashed"
        /\ team_stats_dict = <<>>

AllPlayed == pc = "fixtures" /\ home_idx > NumTeams

RECURSIVE CountResults(_, _)
CountResults(played, results) ==
    IF played = <<>> THEN 0
    ELSE (IF Head(played)[3] \in results THEN 1 ELSE 0)
           + CountResults(Tail(played), results)

RECURSIVE SumPoints(_, _)
SumPoints(st, teams) ==
    IF teams = {} THEN 0
    ELSE LET t == CHOOSE x \in teams : TRUE
         IN  st[t] + SumPoints(st, teams \ {t})

\* C3 as stated: the result of simulate_season has exactly one average
\* position for each simulated team, each in [1, number of teams]
C3_OneEntryPerTeam ==
    (pc = "done" /\ call.fn = "simulate_season") =>
        /\ DOMAIN final_rankings_df = TeamSet
        /\ \A team \in DOMAIN final_rankings_df :
             /\ final_rankings_df[team].n >= final_rankings_df[team].d
             /\ final_rankings_df[team].n <= NumTeams * final_rankings_df[team].d

\* C3 amended: an average position is computed for exactly the simulated
\* teams, each in [1, number of teams]; the result keeps the entries of the
\* min(number of teams, 10) teams with the smallest averages
C3_OneEntryPerTopTeam ==
    (pc = "done" /\ call.fn = "simulate_season") =>
        /\ DOMAIN AvgPosition = TeamSet
        /\ \A team \in TeamSet :
             /\ Len(final_rankings[team]) = num_simulations
             /\ AvgPosition[team].n >= AvgPosition[team].d
             /\ AvgPosition[team].n <= NumTeams * AvgPosition[team].d
        /\ DOMAIN final_rankings_df \subseteq TeamSet
        /\ Cardinality(DOMAIN final_rankings_df) = IF NumTeams < 10 THEN NumTeams ELSE 10
        /\ \A team \in DOMAIN final_rankings_df :
             /\ final_rankings_df[team] = AvgPosition[team]
             /\ \A other \in TeamSet \ DOMAIN final_rankings_df :
                  RLeq(final_rankings_df[team], AvgPosition[other])

C3_Witness ==
    /\ pc = "done"
    /\ call.fn = "simulate_season"
    /\ NumTeams > 10
    /\ Cardinality(DOMAIN final_rankings_df) = 10

\* C4: a trial's tally starts at 0 for every team, and once all its matches
\* are played the points sum to 3 * (matches won by either side) + 2 * (drawn
\* matches) of that trial
C4_PointsSum ==
    /\ (pc = "fixtures" /\ home_idx = 1) => \A team \in TeamSet : standings[team] = 0
    /\ AllPlayed =>
         SumPoints(standings, TeamSet)
           = 3 * CountResults(matches, {"H", "A"}) + 2 * CountResults(matches, {"D"})

C4_Witness ==
    /\ AllPlayed
    /\ trial = 1
    /\ CountResults(matches, {"D"}) > 0
    /\ CountResults(matches, {"H"}) > 0
    /\ CountResults(matches, {"A"}) > 0

PairsPlayed(home, away) ==
    Cardinality({i \in 1..Len(matches) : matches[i][1] = home /\ matches[i][2] = away})

\* C5: a trial plays every ordered pair of distinct teams exactly once and no
\* team against itself, n * (n - 1) matches in all
C5_DoubleRoundRobin ==
    AllPlayed =>
        /\ Len(matches) = NumTeams * (NumTeams - 1)
        /\ \A home \in TeamSet, away \in TeamSet :
             PairsPlayed(home, away) = IF home = away THEN 0 ELSE 1
        /\ \A i \in 1..Len(matches) :
             matches[i][1] \in TeamSet /\ matches[i][2] \in TeamSet

C5_Witness ==
    /\ AllPlayed
    /\ NumTeams >= 3
    /\ Len(matches) = NumTeams * (NumTeams - 1)

Scenario ==
    /\ data.perf = << [Attack_Strength |-> 100, Defense_Strength |-> 50],
                      [Attack_Strength |-> 50,  Defense_Strength |-> 50] >>
    /\ data.valid_teams = {1, 2}

\* C8 as stated: in the scenario every match of every trial ends HomeWin,
\* whichever team is at home
C8_AlwaysHomeWin ==
    Scenario => \A i \in 1..Len(matches) : matches[i][3] = "H"

\* C8 amended: in the scenario team A wins every match of every trial,
\* HomeWin when A is at home and AwayWin when B is at home
C8_StrongerTeamWins ==
    Scenario =>
        /\ randomDraws = 0
        /\ \A i \in 1..Len(matches) :
             matches[i][3] = IF matches[i][1] = 1 THEN "H" ELSE "A"
        /\ \A k \in 1..Len(tallies) : tallies[k] = <<6, 0>>

C8_Witness ==
    /\ Scenario
    /\ AllPlayed
    /\ trial = 1
    /\ matches = << <<1, 2, "H">>, <<2, 1, "A">> >>

IndexOf(team) == CHOOSE i \in 1..NumTeams : historical_teams[i] = team

\* C9: the positions recorded for a trial are a permutation of 1..n, a team
\* with more points has a smaller position, and of two teams with equal
\* points the one earlier in the team list has the smaller position
C9_StableRanking ==
    \A k \in 1..Len(tallies) :
        /\ \A team \in TeamSet : Len(final_rankings[team]) >= k
        /\ {final_rankings[team][k] : team \in TeamSet} = 1..NumTeams
        /\ \A t \in TeamSet, u \in TeamSet :
             /\ tallies[k][t] > tallies[k][u] => final_rankings[t][k] < final_rankings[u][k]
             /\ (tallies[k][t] = tallies[k][u] /\ IndexOf(t) < IndexOf(u))
                   => final_rankings[t][k] < final_rankings[u][k]

C9_Witness ==
    /\ Len(tallies) >= 1
    /\ NumTeams >= 3
    /\ \E t \in TeamSet, u \in TeamSet, v \in TeamSet :
         /\ IndexOf(t) < IndexOf(u)
         /\ IndexOf(u) < IndexOf(v)
         /\ tallies[1][u] = tallies[1][v]
         /\ tallies[1][t] < tallies[1][u]
         /\ final_rankings[u][1] < final_rankings[v][1]
         /\ final_rankings[v][1] < final_rankings[t][1]

\* C10: a season simulation never takes the random fallback, every trial
\* gives every team the points and the position of the first trial, and a
\* team's average position is its position in the first trial
C10_TrialsAgree ==
    call.fn = "simulate_season" =>
        /\ randomDraws = 0
        /\ \A i \in 1..NumTeams : Known(historical_teams[i])
        /\ \A k \in 1..Len(tallies) :
             /\ tallies[k] = tallies[1]
             /\ \A team \in TeamSet : final_rankings[team][k] = final_rankings[team][1]
        /\ pc = "done" =>
             \A team \in TeamSet : AvgPosition[team] = [n |-> final_rankings[team][1], d |-> 1]

C10_Witness ==
    /\ pc = "done"
    /\ call.fn = "simulate_season"
    /\ Len(tallies) >= 2
    /\ NumTeams >= 3
    /\ \E team \in TeamSet : tallies[2][team] > 0

====
